---- MODULE Spec2Model ----
(***************************************************************************)
(* Football Tournament Manager: the round-robin scheduler, the score       *)
(* update and the standings table of main.py, over the team, tournament    *)
(* and match collections.                                                  *)
(***************************************************************************)
EXTENDS Integers, Sequences, FiniteSets, TLC

VARIABLES team, tournament, match, nsched, nupd, req, resp, inflight, rr_in, rr_out

vars == <<team, tournament, match, nsched, nupd, req, resp, inflight, rr_in, rr_out>>

(* ---- bounds ---- *)
MaxTeams == 3
MaxTournaments == 1
MaxSchedules == 2
MaxUpdates == 2
MaxRRTeams == 5

(* ---- identifiers ---- *)
\* An ObjectId is <<collection, k>>: the k-th document inserted in a collection.
\* An id string is a spelling of an ObjectId: str(ObjectId) is the lower-case
\* hex form, ObjectId(s) also accepts the upper-case hex form, and any other
\* string is malformed.
NoOid == <<"", 0>>
Lower(o) == [sp |-> "lower", o |-> o]
Upper(o) == [sp |-> "upper", o |-> o]
BadId == [sp |-> "bad", o |-> NoOid]
BYE == [sp |-> "BYE", o |-> NoOid]

\* str(x) of an ObjectId
str(o) == Lower(o)

\* oid(id_str): ObjectId(id_str), or HTTP 400 when the constructor raises
OidRaises(s) == s.sp \notin {"lower", "upper"}
oid(s) == s.o

TeamOid(k) == <<"team", k>>
TournamentOid(k) == <<"tournament", k>>
MatchOid(k) == <<"match", k>>

(* ---- round_robin_pairings ---- *)
\* a rotation that moves every position, the first included
RotateAll(teams) ==
    <<teams[Len(teams)]>> \o SubSeq(teams, 1, Len(teams) - 1)

Rotate(teams) ==
    <<teams[1]>> \o <<teams[Len(teams)]>> \o SubSeq(teams, 2, Len(teams) - 1)

RECURSIVE RoundPairings(_, _)
RoundPairings(teams, i) ==
    IF i > Len(teams) \div 2 THEN <<>>
    ELSE LET a == teams[i]
             b == teams[Len(teams) + 1 - i]
         IN (IF a /= BYE /\ b /= BYE THEN << <<a, b>> >> ELSE <<>>)
            \o RoundPairings(teams, i + 1)

RECURSIVE ScheduleRounds(_, _)
ScheduleRounds(teams, rounds) ==
    IF rounds <= 0 THEN <<>>
    ELSE RoundPairings(teams, 1) \o ScheduleRounds(Rotate(teams), rounds - 1)

round_robin_pairings(team_ids) ==
    LET teams == IF Len(team_ids) % 2 = 1 THEN Append(team_ids, BYE) ELSE team_ids
    IN ScheduleRounds(teams, Len(teams) - 1)

(* ---- helpers over sequences ---- *)
Range(s) == {s[i] : i \in 1..Len(s)}

SeqsUpTo(S, n) == UNION {[1..k -> S] : k \in 0..n}

IsInjective(s) == \A i, j \in 1..Len(s) : i /= j => s[i] /= s[j]

(* ---- the scheduler alone, over drawn inputs ---- *)
RRIds == {str(TeamOid(k)) : k \in 1..MaxRRTeams}

RRInputs == {s \in SeqsUpTo(RRIds, MaxRRTeams) : Len(s) >= 2 /\ IsInjective(s)}

NoReq == [op |-> "none"]
NoResp == [code |-> 0]

InitRR ==
    /\ team = <<>> /\ tournament = <<>> /\ match = <<>>
    /\ nsched = <<>> /\ nupd = 0 /\ req = NoReq /\ resp = NoResp /\ inflight = <<>>
    /\ rr_in \in RRInputs
    /\ rr_out = <<"pending">>

ApplyRR ==
    /\ rr_out = <<"pending">>
    /\ rr_out' = <<"done", round_robin_pairings(rr_in)>>
    /\ UNCHANGED <<team, tournament, match, nsched, nupd, req, resp, inflight, rr_in>>

NextRR == ApplyRR

SpecRR == InitRR /\ [][NextRR]_vars

(* ---- the collections ---- *)
\* schemas.py: the fields of the stored documents the handlers read or write
TeamNames == {"FC"}

TeamDoc(k, name) == [_id |-> TeamOid(k), name |-> name]

TournamentDoc(k, team_ids) == [_id |-> TournamentOid(k), team_ids |-> team_ids]

\* an absent (None) score is <<>>, a present score n is <<n>>
None == <<>>
Some(n) == <<n>>

Match(k, tournament_id, home_team_id, away_team_id) ==
    [_id |-> MatchOid(k), tournament_id |-> tournament_id,
     home_team_id |-> home_team_id, away_team_id |-> away_team_id,
     status |-> "scheduled", home_score |-> None, away_score |-> None]

\* collection.find_one({"_id": o}): the positions of the documents found
Find(coll, o) == {i \in 1..Len(coll) : coll[i]._id = o}

Min(S) == CHOOSE x \in S : \A y \in S : x <= y

(* ---- the requests drawn ---- *)
\* every team id in its canonical spelling, the first one also in upper case,
\* and a malformed id
TeamIdStrings ==
    {Lower(TeamOid(k)) : k \in 1..MaxTeams} \cup {Upper(TeamOid(1)), BadId}

\* team_ids of a create_tournament request: the ids in registration order,
\* repeats included (round_robin_pairings is checked over every order in SpecRR)
TeamIdLists ==
    {s \in SeqsUpTo(TeamIdStrings, MaxTeams) :
        \A i, j \in 1..Len(s) : i < j => s[i].o[2] <= s[j].o[2]}

\* the ids of the stored tournaments in both spellings, an id of no stored
\* tournament, and a malformed id
TournamentIdStrings ==
    {Lower(TournamentOid(k)) : k \in 1..(Len(tournament) + 1)}
        \cup {Upper(TournamentOid(k)) : k \in 1..Len(tournament)} \cup {BadId}

MatchIdStrings ==
    {Lower(MatchOid(k)) : k \in 1..(Len(match) + 1)} \cup {BadId}

\* (home_score, away_score) of an update_score request: any integers
ScoreInputs == {<<0, 0>>, <<1, 0>>, <<0, 1>>, <<1, 1>>, <<-1, 0>>}

(* ---- create_team ---- *)
create_team(name) ==
    /\ Len(team) < MaxTeams
    /\ team' = Append(team, TeamDoc(Len(team) + 1, name))
    /\ req' = [op |-> "create_team"]
    /\ resp' = [code |-> 200, id |-> str(TeamOid(Len(team) + 1))]
    /\ UNCHANGED <<tournament, match, nsched, nupd, inflight, rr_in, rr_out>>

(* ---- create_tournament ---- *)
\* count_documents({"_id": {"$in": [oid(t) for t in team_ids]}})
CountTeamsIn(team_ids) ==
    Cardinality({i \in 1..Len(team) : team[i]._id \in {oid(t) : t \in Range(team_ids)}})

CreateTournamentCode(team_ids) ==
    IF Len(team_ids) > 0 /\ (\E t \in Range(team_ids) : OidRaises(t)) THEN 400
    ELSE IF Len(team_ids) > 0 /\ CountTeamsIn(team_ids) /= Len(team_ids) THEN 400
    ELSE 200

\* the document created before the team ids are validated
create_tournament_unchecked(team_ids) ==
    LET code == CreateTournamentCode(team_ids)
        k == Len(tournament) + 1
    IN /\ k <= MaxTournaments
       /\ req' = [op |-> "create_tournament"]
       /\ tournament' = Append(tournament, TournamentDoc(k, team_ids))
       /\ nsched' = Append(nsched, 0)
       /\ resp' = IF code = 200 THEN [code |-> 200, id |-> str(TournamentOid(k))]
                  ELSE [code |-> code]
       /\ UNCHANGED <<team, match, nupd, inflight, rr_in, rr_out>>

create_tournament(team_ids) ==
    LET code == CreateTournamentCode(team_ids)
        k == Len(tournament) + 1
    IN /\ code = 200 => k <= MaxTournaments
       /\ req' = [op |-> "create_tournament"]
       /\ IF code = 200
          THEN /\ tournament' = Append(tournament, TournamentDoc(k, team_ids))
               /\ nsched' = Append(nsched, 0)
               /\ resp' = [code |-> 200, id |-> str(TournamentOid(k))]
          ELSE /\ resp' = [code |-> code]
               /\ UNCHANGED <<tournament, nsched>>
       /\ UNCHANGED <<team, match, nupd, inflight, rr_in, rr_out>>

(* ---- generate_schedule ---- *)
GenerateCode(tournament_id) ==
    IF OidRaises(tournament_id) THEN 400
    ELSE IF Find(tournament, oid(tournament_id)) = {} THEN 404
    ELSE IF Len(tournament[Min(Find(tournament, oid(tournament_id)))].team_ids) < 2 THEN 400
    ELSE 200

\* the Match documents of the loop, numbered from the collection's size
NewMatches(tournament_id, pairs, base) ==
    [k \in 1..Len(pairs) |-> Match(base + k, tournament_id, pairs[k][1], pairs[k][2])]

\* create_document("match", ...) for each document in turn
\* an insert that skips a fixture the tournament already has
InsertAllOnce(coll, docs) ==
    coll \o SelectSeq(docs, LAMBDA d : \A i \in 1..Len(coll) :
                ~(/\ oid(coll[i].tournament_id) = oid(d.tournament_id)
                  /\ coll[i].home_team_id = d.home_team_id
                  /\ coll[i].away_team_id = d.away_team_id))

InsertAll(coll, docs) == coll \o docs

generate_schedule(tournament_id) ==
    LET code == GenerateCode(tournament_id)
        ti == Min(Find(tournament, oid(tournament_id)))
        docs == NewMatches(tournament_id,
                           round_robin_pairings(tournament[ti].team_ids), Len(match))
    IN /\ code = 200 => nsched[ti] < MaxSchedules
       /\ req' = [op |-> "generate_schedule", tournament_id |-> tournament_id]
       /\ IF code = 200
          THEN /\ match' = InsertAll(match, docs)
               /\ nsched' = [nsched EXCEPT ![ti] = @ + 1]
               /\ resp' = [code |-> 200,
                           created_match_ids |-> [k \in 1..Len(docs) |-> str(docs[k]._id)]]
          ELSE /\ resp' = [code |-> code]
               /\ UNCHANGED <<match, nsched>>
       /\ UNCHANGED <<team, tournament, nupd, inflight, rr_in, rr_out>>

(* ---- update_score ---- *)
UpdateCode(match_id) ==
    IF OidRaises(match_id) THEN 400
    ELSE IF Find(match, oid(match_id)) = {} THEN 404
    ELSE 200

\* update_one({"_id": ...}, {"$set": {status, home_score, away_score}})
\* a $set without the status
SetScoreNoStatus(m, home_score, away_score) ==
    [m EXCEPT !.home_score = Some(home_score), !.away_score = Some(away_score)]

SetScore(m, home_score, away_score) ==
    [m EXCEPT !.status = "completed",
              !.home_score = Some(home_score), !.away_score = Some(away_score)]

update_score(match_id, home_score, away_score) ==
    LET code == UpdateCode(match_id)
        mi == Min(Find(match, oid(match_id)))
    IN /\ code = 200 => nupd < MaxUpdates
       /\ req' = [op |-> "update_score", match_id |-> match_id]
       /\ IF code = 200
          THEN /\ match' = [match EXCEPT ![mi] = SetScore(@, home_score, away_score)]
               /\ nupd' = nupd + 1
               /\ resp' = [code |-> 200, ok |-> TRUE]
          ELSE /\ resp' = [code |-> code]
               /\ UNCHANGED <<match, nupd>>
       /\ UNCHANGED <<team, tournament, nsched, inflight, rr_in, rr_out>>

(* ---- standings ---- *)
ZeroRow(t) ==
    [team_id |-> str(t._id), name |-> t.name, played |-> 0, won |-> 0, drawn |-> 0,
     lost |-> 0, gf |-> 0, ga |-> 0, gd |-> 0, points |-> 0]

\* db["team"].find({"_id": {"$in": [...]}}): the team documents, in collection order
RECURSIVE TeamDocs(_, _)
TeamDocs(oids, i) ==
    IF i > Len(team) THEN <<>>
    ELSE (IF team[i]._id \in oids THEN <<team[i]>> ELSE <<>>) \o TeamDocs(oids, i + 1)

\* team_map: a row for each document found, keyed by str(_id)
TeamMap(team_docs) ==
    [key \in {str(team_docs[i]._id) : i \in 1..Len(team_docs)} |->
        ZeroRow(team_docs[CHOOSE i \in 1..Len(team_docs) : str(team_docs[i]._id) = key])]

\* db["match"].find({"tournament_id": tournament_id, "status": "completed"})
RECURSIVE CompletedMatches(_, _)
CompletedMatches(tournament_id, i) ==
    IF i > Len(match) THEN <<>>
    ELSE (IF match[i].tournament_id = tournament_id /\ match[i].status = "completed"
          THEN <<match[i]>> ELSE <<>>) \o CompletedMatches(tournament_id, i + 1)

\* row[field] += delta, on the row shared by every reference to the key
Add(team_map, key, field, delta) ==
    [team_map EXCEPT ![key] = [@ EXCEPT ![field] = @ + delta]]

\* gd left as it was
SetGdStale(team_map, key) == team_map

SetGd(team_map, key) ==
    [team_map EXCEPT ![key].gd = team_map[key].gf - team_map[key].ga]

\* the body of the loop for a match whose two rows were found
TallyKnown(team_map, m) ==
    LET h == m.home_team_id
        a == m.away_team_id
        hs == m.home_score[1]
        as == m.away_score[1]
        t1 == Add(Add(team_map, h, "played", 1), a, "played", 1)
        t2 == Add(Add(t1, h, "gf", hs), h, "ga", as)
        t3 == Add(Add(t2, a, "gf", as), a, "ga", hs)
        t4 == SetGd(SetGd(t3, h), a)
    IN IF hs > as
       THEN Add(Add(Add(t4, h, "won", 1), a, "lost", 1), h, "points", 3)
       ELSE IF hs < as
       THEN Add(Add(Add(t4, a, "won", 1), h, "lost", 1), a, "points", 3)
       ELSE Add(Add(Add(Add(t4, h, "drawn", 1), a, "drawn", 1),
                    h, "points", 1), a, "points", 1)

\* a loop body that looks up the away row only and counts the match as played
\* for it before the home row is missed
TallyMatchAwayOnly(team_map, m) ==
    IF m.away_team_id \notin DOMAIN team_map THEN team_map
    ELSE IF m.home_team_id \notin DOMAIN team_map
    THEN Add(team_map, m.away_team_id, "played", 1)
    ELSE TallyKnown(team_map, m)

\* the body of the loop for one match: team_map.get of both ids, skip when
\* either is None
TallyMatch(team_map, m) ==
    IF m.home_team_id \notin DOMAIN team_map \/ m.away_team_id \notin DOMAIN team_map
    THEN team_map
    ELSE TallyKnown(team_map, m)

\* the loop over the first n matches
RECURSIVE Tally(_, _, _)
Tally(team_map, matches, n) ==
    IF n = 0 THEN team_map
    ELSE TallyMatch(Tally(team_map, matches, n - 1), matches[n])

\* key=lambda x: (points, gd, gf), compared as tuples
KeyLess(x, y) ==
    \/ x.points < y.points
    \/ x.points = y.points /\ x.gd < y.gd
    \/ x.points = y.points /\ x.gd = y.gd /\ x.gf < y.gf

\* list.sort(reverse=True) is stable: a row goes after the rows not below it
\* an ascending sort: a row goes before the rows above it
InsertRowAscending(sorted, r) ==
    LET above == {i \in 1..Len(sorted) : KeyLess(r, sorted[i])}
        p == IF above = {} THEN Len(sorted) + 1 ELSE Min(above)
    IN SubSeq(sorted, 1, p - 1) \o <<r>> \o SubSeq(sorted, p, Len(sorted))

InsertRow(sorted, r) ==
    LET below == {i \in 1..Len(sorted) : KeyLess(sorted[i], r)}
        p == IF below = {} THEN Len(sorted) + 1 ELSE Min(below)
    IN SubSeq(sorted, 1, p - 1) \o <<r>> \o SubSeq(sorted, p, Len(sorted))

RECURSIVE SortTable(_, _)
SortTable(rows, n) ==
    IF n = 0 THEN <<>> ELSE InsertRow(SortTable(rows, n - 1), rows[n])

\* the table of the tournament after the first n of the matches
Table(tournament_id, matches, n) ==
    LET t == tournament[Min(Find(tournament, oid(tournament_id)))]
        team_docs == TeamDocs({oid(x) : x \in Range(t.team_ids)}, 1)
        team_map == Tally(TeamMap(team_docs), matches, n)
        rows == [i \in 1..Len(team_docs) |-> team_map[str(team_docs[i]._id)]]
    IN SortTable(rows, Len(rows))

\* find_one gives None for an absent tournament and None["team_ids"] raises
\* TypeError, which the framework answers with 500
StandingsCode(tournament_id) ==
    IF OidRaises(tournament_id) THEN 400
    ELSE IF Find(tournament, oid(tournament_id)) = {} THEN 500
    ELSE 200

standings(tournament_id) ==
    LET code == StandingsCode(tournament_id)
    IN /\ req' = [op |-> "standings", tournament_id |-> tournament_id]
       /\ resp' = IF code = 200
                  THEN [code |-> 200,
                        table |-> Table(tournament_id, CompletedMatches(tournament_id, 1),
                                        Len(CompletedMatches(tournament_id, 1)))]
                  ELSE [code |-> code]
       /\ UNCHANGED <<team, tournament, match, nsched, nupd, inflight, rr_in, rr_out>>

(* ---- the service, one request at a time ---- *)
Init ==
    /\ team = <<>> /\ tournament = <<>> /\ match = <<>>
    /\ nsched = <<>> /\ nupd = 0 /\ req = NoReq /\ resp = NoResp /\ inflight = <<>>
    /\ rr_in = <<>> /\ rr_out = <<>>

Next ==
    \/ \E name \in TeamNames : create_team(name)
    \/ \E team_ids \in TeamIdLists : create_tournament(team_ids)
    \/ \E tournament_id \in TournamentIdStrings : generate_schedule(tournament_id)
    \/ \E match_id \in MatchIdStrings, sc \in ScoreInputs : update_score(match_id, sc[1], sc[2])
    \/ \E tournament_id \in TournamentIdStrings : standings(tournament_id)

Spec == Init /\ [][Next]_vars

(* ---- generate_schedule calls served side by side ---- *)
\* Several server processes over one database: a call's create_document
\* inserts can fall between the inserts of another call.  inflight holds the
\* calls that passed the checks: the pairs still to insert and the ids created.
GenAccept(tournament_id) ==
    LET code == GenerateCode(tournament_id)
        ti == Min(Find(tournament, oid(tournament_id)))
    IN /\ code = 200 => nsched[ti] < MaxSchedules
       /\ IF code = 200
          THEN /\ inflight' = Append(inflight,
                      [tournament_id |-> tournament_id,
                       todo |-> round_robin_pairings(tournament[ti].team_ids),
                       created |-> <<>>])
               /\ nsched' = [nsched EXCEPT ![ti] = @ + 1]
               /\ UNCHANGED <<req, resp>>
          ELSE /\ req' = [op |-> "generate_schedule", tournament_id |-> tournament_id]
               /\ resp' = [code |-> code]
               /\ UNCHANGED <<inflight, nsched>>
       /\ UNCHANGED <<team, tournament, match, nupd, rr_in, rr_out>>

GenInsert(c) ==
    /\ c \in 1..Len(inflight)
    /\ inflight[c].todo /= <<>>
    /\ LET call == inflight[c]
           docs == NewMatches(call.tournament_id, <<Head(call.todo)>>, Len(match))
       IN /\ match' = InsertAll(match, docs)
          /\ inflight' = [inflight EXCEPT ![c] =
                 [@ EXCEPT !.todo = Tail(@), !.created = Append(@, str(docs[1]._id))]]
    /\ UNCHANGED <<team, tournament, nsched, nupd, req, resp, rr_in, rr_out>>

GenReturn(c) ==
    /\ c \in 1..Len(inflight)
    /\ inflight[c].todo = <<>>
    /\ req' = [op |-> "generate_schedule", tournament_id |-> inflight[c].tournament_id]
    /\ resp' = [code |-> 200, created_match_ids |-> inflight[c].created]
    /\ inflight' = SubSeq(inflight, 1, c - 1) \o SubSeq(inflight, c + 1, Len(inflight))
    /\ UNCHANGED <<team, tournament, match, nsched, nupd, rr_in, rr_out>>

NextConc ==
    \/ \E name \in TeamNames : create_team(name)
    \/ \E team_ids \in TeamIdLists : create_tournament(team_ids)
    \/ \E tournament_id \in TournamentIdStrings : GenAccept(tournament_id)
    \/ \E c \in 1..MaxSchedules : GenInsert(c)
    \/ \E c \in 1..MaxSchedules : GenReturn(c)

SpecConc == Init /\ [][NextConc]_vars

(* ======================= the claims ======================= *)

(* ---- C1 ---- *)
\* C1: for n >= 2 pairwise distinct real team ids, round_robin_pairings returns
\* exactly n*(n-1)/2 pairs, every unordered pair of distinct input ids is in
\* exactly one returned pair, no pair pairs a team with itself, and no pair
\* contains the "BYE" placeholder.
C1_RoundRobinComplete ==
    rr_out[1] = "done" =>
        LET out == rr_out[2]
            n == Len(rr_in)
        IN /\ 2 * Len(out) = n * (n - 1)
           /\ \A i, j \in 1..n : i < j =>
                 Cardinality({k \in 1..Len(out) :
                     {out[k][1], out[k][2]} = {rr_in[i], rr_in[j]}}) = 1
           /\ \A k \in 1..Len(out) :
                 /\ out[k][1] /= out[k][2]
                 /\ out[k][1] /= BYE /\ out[k][2] /= BYE

\* an odd input, padded with the placeholder, and its three pairs
C1_Witness ==
    /\ rr_out[1] = "done"
    /\ Len(rr_in) = 3
    /\ Len(rr_out[2]) = 3

(* ---- the standings response ---- *)
StandingsDone == req.op = "standings" /\ resp.code = 200

\* the completed matches the request selected
Selected == CompletedMatches(req.tournament_id, 1)

RECURSIVE SumField(_, _, _)
SumField(table, field, n) ==
    IF n = 0 THEN 0 ELSE SumField(table, field, n - 1) + table[n][field]

RowSound(r) == r.gd = r.gf - r.ga /\ r.points = 3 * r.won + r.drawn

(* ---- C2 ---- *)
\* C2: every row of the standings table satisfies gd = gf - ga and
\* points = 3*won + drawn, after each match is processed and at the end.
C2_RowsSound ==
    StandingsDone =>
        /\ \A i \in 1..Len(resp.table) : RowSound(resp.table[i])
        /\ \A n \in 0..Len(Selected) :
              LET t == Table(req.tournament_id, Selected, n)
              IN \A i \in 1..Len(t) : RowSound(t[i])

\* a table with a row that has won one match and drawn another
C2_Witness ==
    /\ StandingsDone
    /\ \E i \in 1..Len(resp.table) :
          /\ resp.table[i].won = 1 /\ resp.table[i].drawn = 1
          /\ resp.table[i].points = 4 /\ resp.table[i].gd = 1

(* ---- C3 ---- *)
\* C3: the table is in descending order of (points, gd, gf), consecutive rows
\* compared lexicographically, and has exactly one row per team of the
\* tournament's team set.
KeyGeq(x, y) ==
    \/ x.points > y.points
    \/ x.points = y.points /\ x.gd > y.gd
    \/ x.points = y.points /\ x.gd = y.gd /\ x.gf >= y.gf

C3_SortedOneRowPerTeam ==
    StandingsDone =>
        LET t == tournament[Min(Find(tournament, oid(req.tournament_id)))]
            table == resp.table
        IN /\ \A i \in 1..(Len(table) - 1) : KeyGeq(table[i], table[i + 1])
           /\ Len(table) = Len(t.team_ids)
           /\ \A x \in Range(t.team_ids) :
                 Cardinality({i \in 1..Len(table) : oid(table[i].team_id) = oid(x)}) = 1

\* three rows, the first two level on points and apart on goal difference,
\* and the table not in registration order
C3_Witness ==
    /\ StandingsDone
    /\ Len(resp.table) = 3
    /\ resp.table[1].points = 3 /\ resp.table[2].points = 3
    /\ resp.table[1].gd > resp.table[2].gd
    /\ resp.table[1].team_id /= str(TeamOid(1))

(* ---- C4 ---- *)
\* C4: the sum of won over the rows equals the number of the tournament's
\* completed matches whose scores differ, and the sum of drawn equals twice
\* the number of its completed matches with equal scores (stated for the
\* matches the request selects, scored with non-negative goals).
C4_WonDrawnSums ==
    (StandingsDone /\ \A i \in 1..Len(Selected) :
         Selected[i].home_score[1] >= 0 /\ Selected[i].away_score[1] >= 0) =>
        /\ SumField(resp.table, "won", Len(resp.table)) =
              Cardinality({i \in 1..Len(Selected) :
                  Selected[i].home_score /= Selected[i].away_score})
        /\ SumField(resp.table, "drawn", Len(resp.table)) =
              2 * Cardinality({i \in 1..Len(Selected) :
                  Selected[i].home_score = Selected[i].away_score})

(* ---- C5 ---- *)
\* a selected match one of whose team ids is the team_id of no row
Orphan(m) ==
    \/ \A i \in 1..Len(resp.table) : resp.table[i].team_id /= m.home_team_id
    \/ \A i \in 1..Len(resp.table) : resp.table[i].team_id /= m.away_team_id

RemoveAt(q, j) == SubSeq(q, 1, j - 1) \o SubSeq(q, j + 1, Len(q))

C6_MatchWellFormed ==
    \A k \in 1..Len(match) :
        LET m == match[k]
        IN /\ m.status \in {"scheduled", "completed"}
           /\ (m.status = "completed") <=> (m.home_score /= None /\ m.away_score /= None)
           /\ m.home_score /= None => m.home_score[1] >= 0
           /\ m.away_score /= None => m.away_score[1] >= 0

C8_StandingsNotFound ==
    (/\ req.op = "standings"
     /\ ~OidRaises(req.tournament_id)
     /\ Find(tournament, oid(req.tournament_id)) = {}) => resp.code = 404

(* ---- C9 ---- *)
\* C9: a request that ends in a client error (4xx) leaves the stored teams,
\* tournaments and matches unchanged.
C9_ClientErrorNoMutation ==
    [][(resp'.code >= 400 /\ resp'.code < 500) =>
          (team' = team /\ tournament' = tournament /\ match' = match)]_vars

\* generate_schedule refused for a stored tournament with fewer than 2 teams
C9_Witness ==
    /\ req.op = "generate_schedule" /\ resp.code = 400
    /\ ~OidRaises(req.tournament_id)
    /\ Find(tournament, oid(req.tournament_id)) /= {}
    /\ Len(team) > 0
    /\ match = <<>>

(* ---- C10 ---- *)
\* the stored matches of the k-th tournament between teams x and y
Fixtures(k, x, y) ==
    {i \in 1..Len(match) :
        /\ oid(match[i].tournament_id) = tournament[k]._id
        /\ {match[i].home_team_id, match[i].away_team_id} = {x, y}}

\* C10: generate_schedule has no guard against repetition: each successful
\* call on a tournament with n team ids inserts n*(n-1)/2 new matches, each
\* scheduled and without scores, whatever matches exist; after k successful
\* calls, sequential or interleaved, every unordered pair of the tournament's
\* teams has exactly k stored matches.
C10_FixturesDuplicated ==
    /\ [](inflight = <<>> =>
            \A k \in 1..Len(tournament) :
                LET ids == tournament[k].team_ids
                IN /\ \A i, j \in 1..Len(ids) : i < j =>
                         Cardinality(Fixtures(k, ids[i], ids[j])) = nsched[k]
                   /\ 2 * Cardinality({i \in 1..Len(match) :
                             oid(match[i].tournament_id) = tournament[k]._id})
                         = nsched[k] * Len(ids) * (Len(ids) - 1))
    /\ []((req.op = "generate_schedule" /\ resp.code = 200) =>
            LET ids == tournament[Min(Find(tournament, oid(req.tournament_id)))].team_ids
            IN 2 * Len(resp.created_match_ids) = Len(ids) * (Len(ids) - 1))
    /\ [][Len(match') > Len(match) =>
            /\ SubSeq(match', 1, Len(match)) = match
            /\ \A i \in (Len(match) + 1)..Len(match') :
                  /\ match'[i].status = "scheduled"
                  /\ match'[i].home_score = None /\ match'[i].away_score = None]_vars

\* two calls on a three-team tournament, their inserts interleaved, both returned
C10_Witness ==
    /\ inflight = <<>>
    /\ Len(tournament) = 1 /\ Len(tournament[1].team_ids) = 3
    /\ nsched[1] = 2
    /\ Len(match) = 6
    /\ match[1].tournament_id /= match[2].tournament_id

====
